---- MODULE Spec2Model ----
(***************************************************************************)
(* Verification model of the scoring engine of speaking-tutor-server       *)
(* (src/score.js).  The file holds two revisions of scoreAttempt: lines    *)
(* 1-158 (revision 1) and lines 163-324 (revision 2).  Both are modelled;  *)
(* the variable rev says which one a call runs.                            *)
(*                                                                         *)
(* Numbers.  A JS number of the [0,1] pipeline (wer, speed, silence, ...)  *)
(* is held in fixed point as round(x * Scale).  wpm, ms, pitchStd and      *)
(* pitchMean are held as integers in their own unit.                       *)
(*                                                                         *)
(* Text.  A string is a sequence of pieces; a piece is an indivisible run  *)
(* of characters (a word, a space, a punctuation mark, a symbol) with a    *)
(* length in UTF-16 code units, a script and a kind.                       *)
(***************************************************************************)
EXTENDS Integers, Sequences, FiniteSets, TLC

Scale == 1000 * 1000

(***************************************************************************)
(* JavaScript values                                                       *)
(***************************************************************************)
Undef  == [t |-> "undefined"]
Null   == [t |-> "null"]
NaN    == [t |-> "nan"]
PosInf == [t |-> "+inf"]
NegInf == [t |-> "-inf"]
Num(v) == [t |-> "number", v |-> v]
Str(s) == [t |-> "string", s |-> s]
Obj(f) == [t |-> "object", f |-> f]

\* Number.isFinite(x): true only for a value of type number that is finite
IsFinite(x) == x.t = "number"

\* ToBoolean(x) for the values above (0 is the only falsy finite number used)
Truthy(x) ==
  CASE x.t = "undefined" -> FALSE
    [] x.t = "null"      -> FALSE
    [] x.t = "nan"       -> FALSE
    [] x.t = "string"    -> x.s # << >>
    [] x.t = "number"    -> x.v # 0
    [] OTHER             -> TRUE

\* a || b
OrElse(a, b) == IF Truthy(a) THEN a ELSE b

\* a ?? b
Coalesce(a, b) == IF a.t \in {"undefined", "null"} THEN b ELSE a

(***************************************************************************)
(* Pieces of text                                                          *)
(***************************************************************************)
\* kind: "letter" and "digit" pieces are \p{L} / \p{N} runs; "space" is \s;
\* "punct" is a mark of the fallback splitter's class; "symbol" is neither.
PieceInfo ==
  [ please  |-> [len |-> 6, script |-> "latin",  kind |-> "letter"],
    Please  |-> [len |-> 6, script |-> "latin",  kind |-> "letter"],
    order   |-> [len |-> 5, script |-> "latin",  kind |-> "letter"],
    a       |-> [len |-> 1, script |-> "latin",  kind |-> "letter"],
    the     |-> [len |-> 3, script |-> "latin",  kind |-> "letter"],
    hot     |-> [len |-> 3, script |-> "latin",  kind |-> "letter"],
    coffee  |-> [len |-> 6, script |-> "latin",  kind |-> "letter"],
    coffee_lig |-> [len |-> 5, script |-> "latin", kind |-> "letter"],
    null    |-> [len |-> 4, script |-> "latin",  kind |-> "letter"],
    d5      |-> [len |-> 1, script |-> "none",   kind |-> "digit"],
    annyeonghaseyo |-> [len |-> 5, script |-> "hangul", kind |-> "letter"],
    mannaseo       |-> [len |-> 3, script |-> "hangul", kind |-> "letter"],
    bangawoyo      |-> [len |-> 4, script |-> "hangul", kind |-> "letter"],
    konnichiwa     |-> [len |-> 5, script |-> "kana",   kind |-> "letter"],
    nihao   |-> [len |-> 2, script |-> "han",    kind |-> "letter"],
    shijie  |-> [len |-> 2, script |-> "han",    kind |-> "letter"],
    pengyou |-> [len |-> 2, script |-> "han",    kind |-> "letter"],
    sp      |-> [len |-> 1, script |-> "none",   kind |-> "space"],
    comma   |-> [len |-> 1, script |-> "none",   kind |-> "punct"],
    hash    |-> [len |-> 1, script |-> "none",   kind |-> "symbol"] ]

Pieces == DOMAIN PieceInfo

HasScript(s, sc) == \E i \in 1..Len(s) : PieceInfo[s[i]].script = sc

\* String(x) for the values a text field can hold: a string, null, or the
\* number 5 (the one non-string, non-nullish value the inputs use)
String(x) ==
  CASE x.t = "string" -> x.s
    [] x.t = "number" -> <<"d5">>
    [] OTHER          -> <<"null">>

\* s.normalize("NFKC"): the ligature spelling of "coffee" is decomposed
NFKC(s) == [i \in 1..Len(s) |-> IF s[i] = "coffee_lig" THEN "coffee" ELSE s[i]]

\* s.toLowerCase() / s.toLocaleLowerCase(l) on an accepted locale
LowerCase(s) == [i \in 1..Len(s) |-> IF s[i] = "Please" THEN "please" ELSE s[i]]

IsSpace(p) == PieceInfo[p].kind = "space"

\* s.trim()
RECURSIVE Trim(_)
Trim(s) ==
  IF s = << >> THEN s
  ELSE IF IsSpace(Head(s)) THEN Trim(Tail(s))
  ELSE IF IsSpace(s[Len(s)]) THEN Trim(SubSeq(s, 1, Len(s) - 1))
  ELSE s

\* outcome of a call that can throw
Ok(v)    == [ok |-> TRUE, v |-> v]
Throw(e) == [ok |-> FALSE, err |-> e]

\* the language tags the platform accepts (Intl throws RangeError otherwise)
ValidLocale(l) == l \in {"en-US", "ko-KR", "ja-JP", "zh-CN", "xx-XX"}

(***************************************************************************)
(* norm, guessByText, tokenize                                             *)
(***************************************************************************)
\* revision 1: String(s ?? "").normalize("NFKC")
\* revision 2: (s || "").normalize("NFKC").toLocaleLowerCase(l).trim()
norm(r, s, l) ==
  IF r = 1 THEN Ok(NFKC(String(Coalesce(s, Str(<< >>)))))
  ELSE LET v == OrElse(s, Str(<< >>)) IN
       IF v.t # "string" THEN Throw("TypeError")
       ELSE IF ~ValidLocale(l) THEN Throw("RangeError")
       ELSE Ok(Trim(LowerCase(NFKC(v.s))))

\* guessByText(s = ""): the regular expressions test String(s)
guessByText(x) ==
  LET s == IF x.t = "undefined" THEN << >> ELSE String(x) IN
  IF HasScript(s, "hangul") THEN "ko-KR"
  ELSE IF HasScript(s, "kana") \/ HasScript(s, "han") THEN "ja-JP"
  ELSE IF HasScript(s, "han") THEN "zh-CN"
  ELSE IF HasScript(s, "latin") THEN "en-US"
  ELSE "en-US"

IsWord(p) == PieceInfo[p].kind \in {"letter", "digit"}

\* Intl.Segmenter word boundaries: adjacent letters and digits form one
\* segment, except that ideographs and kana are cut into dictionary words
\* (one piece each); every other piece is a segment of its own
Joins(p, q) ==
  /\ IsWord(p) /\ IsWord(q)
  /\ PieceInfo[p].script \notin {"han", "kana"}
  /\ PieceInfo[q].script \notin {"han", "kana"}

RECURSIVE segment(_, _)
segment(t, acc) ==
  IF t = << >> THEN acc
  ELSE IF acc # << >> /\ Joins(acc[Len(acc)][Len(acc[Len(acc)])], Head(t))
       THEN segment(Tail(t), [acc EXCEPT ![Len(acc)] = Append(@, Head(t))])
       ELSE segment(Tail(t), Append(acc, <<Head(t)>>))

\* isWordLike of a segment, and the test /\p{L}|\p{N}/u
isWordLike(sg) == IsWord(sg[1])
HasLetterOrDigit(sg) == \E i \in 1..Len(sg) : IsWord(sg[i])

\* t.split(/[\s.,!?;:()'"...]+/u).filter(Boolean)
IsSplitter(p) == PieceInfo[p].kind \in {"space", "punct"}

RECURSIVE split(_, _, _)
split(t, cur, acc) ==
  IF t = << >> THEN (IF cur = << >> THEN acc ELSE Append(acc, cur))
  ELSE IF IsSplitter(Head(t))
       THEN split(Tail(t), << >>, IF cur = << >> THEN acc ELSE Append(acc, cur))
       ELSE split(Tail(t), Append(cur, Head(t)), acc)

\* a token is the sequence of pieces it is made of
tokenize(r, text, localeHint) ==
  LET t == norm(r, text, localeHint) IN
  IF ~t.ok THEN t
  ELSE IF ValidLocale(localeHint)
       THEN Ok(SelectSeq(segment(t.v, << >>),
                         LAMBDA sg : isWordLike(sg) /\ HasLetterOrDigit(sg)))
       ELSE Ok(split(t.v, << >>, << >>))

TokenLength(w) ==
  LET RECURSIVE sum(_)
      sum(i) == IF i = 0 THEN 0 ELSE PieceInfo[w[i]].len + sum(i - 1)
  IN sum(Len(w))

(***************************************************************************)
(* Arithmetic helpers                                                      *)
(***************************************************************************)
Max(a, b) == IF a > b THEN a ELSE b
Min(a, b) == IF a < b THEN a ELSE b
Abs(a)    == IF a < 0 THEN -a ELSE a

\* a / b rounded to the nearest integer, halves up (b > 0)
RoundDiv(a, b) == (2 * a + b) \div (2 * b)

\* mutant: the lower bound of the clamp is lost
clamp_noFloor(v) == Min(Scale, v)

\* clamp01 applied to a finite fixed-point value
clamp(v) == Max(0, Min(Scale, v))

\* clamp01 = (x) => Math.max(0, Math.min(1, Number.isFinite(x) ? x : 0))
clamp01(x) == IF IsFinite(x) THEN clamp(x.v) ELSE 0

\* Math.round(v * 100) of a fixed-point value (clamp100 in revision 1)
Round100(r, v) ==
  IF r = 1 THEN Max(0, Min(100, RoundDiv(v, Scale \div 100)))
  ELSE RoundDiv(v, Scale \div 100)

\* 1 / (1 + Math.exp(-(wpm - 135) / 25)) in fixed point, for wpm = 0..300
LogisticTable ==
  <<
     4496, 4679, 4869, 5067, 5272, 5486, 5709, 5941, 6181, 6432,
       6693, 6964, 7246, 7540, 7845, 8163, 8493, 8836, 9194, 9565,
       9952, 10354, 10772, 11206, 11658, 12128, 12617, 13125, 13654, 14203,
       14774, 15368, 15985, 16626, 17293, 17986, 18707, 19455, 20233, 21041,
       21881, 22754, 23661, 24602, 25581, 26597, 27652, 28748, 29887, 31068,
       32295, 33569, 34891, 36264, 37688, 39166, 40699, 42290, 43940, 45651,
       47426, 49266, 51174, 53151, 55201, 57324, 59524, 61803, 64164, 66608,
       69138, 71758, 74468, 77272, 80173, 83173, 86274, 89480, 92793, 96216,
       99750, 103400, 107168, 111056, 115067, 119203, 123467, 127862, 132389, 137051,
       141851, 146790, 151871, 157095, 162465, 167982, 173647, 179462, 185427, 191545,
       197816, 204240, 210818, 217550, 224436, 231475, 238667, 246011, 253506, 261150,
       268941, 276878, 284958, 293178, 301535, 310026, 318646, 327393, 336261, 345247,
       354344, 363547, 372852, 382252, 391741, 401312, 410960, 420676, 430454, 440286,
       450166, 460085, 470036, 480011, 490001, 500000, 509999, 519989, 529964, 539915,
       549834, 559714, 569546, 579324, 589040, 598688, 608259, 617748, 627148, 636453,
       645656, 654753, 663739, 672607, 681354, 689974, 698465, 706822, 715042, 723122,
       731059, 738850, 746494, 753989, 761333, 768525, 775564, 782450, 789182, 795760,
       802184, 808455, 814573, 820538, 826353, 832018, 837535, 842905, 848129, 853210,
       858149, 862949, 867611, 872138, 876533, 880797, 884933, 888944, 892832, 896600,
       900250, 903784, 907207, 910520, 913726, 916827, 919827, 922728, 925532, 928242,
       930862, 933392, 935836, 938197, 940476, 942676, 944799, 946849, 948826, 950734,
       952574, 954349, 956060, 957710, 959301, 960834, 962312, 963736, 965109, 966431,
       967705, 968932, 970113, 971252, 972348, 973403, 974419, 975398, 976339, 977246,
       978119, 978959, 979767, 980545, 981293, 982014, 982707, 983374, 984015, 984632,
       985226, 985797, 986346, 986875, 987383, 987872, 988342, 988794, 989228, 989646,
       990048, 990435, 990806, 991164, 991507, 991837, 992155, 992460, 992754, 993036,
       993307, 993568, 993819, 994059, 994291, 994514, 994728, 994933, 995131, 995321,
       995504, 995679, 995848, 996010, 996166, 996316, 996460, 996598, 996731, 996859,
       996982, 997100, 997213, 997322, 997427, 997527, 997624, 997717, 997806, 997892,
       997975, 998054, 998130, 998203, 998274, 998341, 998406, 998469, 998528, 998586,
       998641 >>

speedScoreOf(wpm) == LogisticTable[wpm + 1]

(***************************************************************************)
(* wordErrorRate                                                           *)
(***************************************************************************)
\* mutant: a substitution is never free
RECURSIVE FillRow_costOne(_, _, _, _, _)
FillRow_costOne(prev, cur, refTok, hypArr, j) ==
  IF j > Len(hypArr) THEN cur
  ELSE LET cell == IF prev[j + 1] + 1 < cur[j] + 1 THEN prev[j + 1] + 1 ELSE cur[j] + 1
       IN FillRow_costOne(prev, Append(cur, IF prev[j] + 1 < cell THEN prev[j] + 1 ELSE cell),
                          refTok, hypArr, j + 1)

\* one row dp[i][0..m] of the table from the row dp[i-1][0..m];
\* a row is the sequence of its m+1 entries
RECURSIVE FillRow(_, _, _, _, _)
FillRow(prev, cur, refTok, hypArr, j) ==
  IF j > Len(hypArr) THEN cur
  ELSE LET cost == IF refTok = hypArr[j] THEN 0 ELSE 1
           cell == Min(Min(prev[j + 1] + 1, cur[j] + 1), prev[j] + cost)
       IN FillRow(prev, Append(cur, cell), refTok, hypArr, j + 1)

RECURSIVE Rows(_, _, _, _)
Rows(prev, refArr, hypArr, i) ==
  IF i > Len(refArr) THEN prev
  ELSE Rows(FillRow(prev, <<i>>, refArr[i], hypArr, 1), refArr, hypArr, i + 1)

\* mutant: the first row is not initialised to the insertion counts
EditDistance_zeroRow(refArr, hypArr) ==
  LET m    == Len(hypArr)
      row0 == [j \in 1..(m + 1) |-> 0]
  IN Rows(row0, refArr, hypArr, 1)[m + 1]

\* dp[n][m]
EditDistance(refArr, hypArr) ==
  LET m    == Len(hypArr)
      row0 == [j \in 1..(m + 1) |-> j - 1]
  IN Rows(row0, refArr, hypArr, 1)[m + 1]

wordErrorRate(refArr, hypArr) ==
  LET n == Len(refArr)
      m == Len(hypArr)
  IN IF n = 0 /\ m = 0 THEN 0
     ELSE IF n = 0 THEN Scale
     ELSE RoundDiv(EditDistance(refArr, hypArr) * Scale, Max(1, n))

(***************************************************************************)
(* scoreAttempt                                                            *)
(***************************************************************************)
\* the stop-word sets, restricted to the words of PieceInfo
STOP(r) ==
  IF r = 1
  THEN [en |-> {<<"a">>, <<"the">>}, es |-> {<<"a">>}, ko |-> {}, ja |-> {}]
  ELSE [en |-> {<<"a">>, <<"the">>}, ko |-> {}, ja |-> {}, zh |-> {}]

\* guessLocale.slice(0, 2) (lower-cased in revision 1)
langKeyOf(l) ==
  CASE l = "en-US" -> "en"
    [] l = "ko-KR" -> "ko"
    [] l = "ja-JP" -> "ja"
    [] l = "zh-CN" -> "zh"
    [] l = "xx-XX" -> "xx"
    [] OTHER       -> "no"

\* refTokens.filter((w) => !sw.has(w))   (w.toLowerCase() in revision 1)
filterStop(r, toks, sw) ==
  SelectSeq(toks, LAMBDA w : (IF r = 1 THEN LowerCase(w) ELSE w) \notin sw)

\* String(transcript).trim().split(/\s+/).length
RECURSIVE splitWs(_, _, _)
splitWs(t, cur, n) ==
  IF t = << >> THEN (IF cur THEN n + 1 ELSE n)
  ELSE IF IsSpace(Head(t)) THEN splitWs(Tail(t), FALSE, IF cur THEN n + 1 ELSE n)
  ELSE splitWs(Tail(t), TRUE, n)

wsChunks(s) == Max(1, splitWs(Trim(s), FALSE, 0))

\* the feedback messages, by rule
Msg(rule, words) == [rule |-> rule, words |-> words]

\* mutant: a message is put at the front of the list
PushIf_unshift(fb, cond, m) == IF cond THEN <<m>> \o fb ELSE fb

\* feedback.push(...) when the rule's condition holds
PushIf(fb, cond, m) == IF cond THEN Append(fb, m) ELSE fb

\* mutant: the cap drops the oldest entry instead of the newest
RECURSIVE capFeedback_shift(_)
capFeedback_shift(fb) ==
  IF Len(fb) > 4 THEN capFeedback_shift(Tail(fb)) ELSE fb

\* while (feedback.length > 4) feedback.pop()
RECURSIVE capFeedback(_)
capFeedback(fb) ==
  IF Len(fb) > 4 THEN capFeedback(SubSeq(fb, 1, Len(fb) - 1)) ELSE fb

\* the parameter list: destructuring with defaults
bindArgs(r, arg) ==
  IF arg.t = "undefined"
  THEN IF r = 1
       THEN Ok([transcript |-> Str(<< >>), targetText |-> Str(<< >>),
                lang |-> "auto", audio |-> Obj([wpm |-> Undef, ms |-> Undef,
                  silenceRatio |-> Undef, pitchStd |-> Undef, pitchMean |-> Undef])])
       ELSE Throw("TypeError")
  ELSE LET f == arg.f
           dflt(x) == IF r = 1 /\ x.t = "undefined" THEN Str(<< >>) ELSE x
       IN Ok([transcript |-> dflt(f.transcript), targetText |-> dflt(f.targetText),
              lang |-> f.lang,
              audio |-> IF f.audio.t = "undefined"
                        THEN Obj([wpm |-> Undef, ms |-> Undef, silenceRatio |-> Undef,
                                  pitchStd |-> Undef, pitchMean |-> Undef])
                        ELSE f.audio])

\* mutant: the threshold is exclusive
hasTargetOf_exclusive(refTokens) == Len(refTokens) > 3

\* const hasTarget = refTokens.length >= 3
hasTargetOf(refTokens) == Len(refTokens) >= 3

\* mutant: one-character tokens count as key tokens
keyTokensOf_noLength(refFiltered) == refFiltered

\* refFiltered.filter((w) => w.length > 1)
keyTokensOf(refFiltered) == SelectSeq(refFiltered, LAMBDA w : TokenLength(w) > 1)

\* keyTokens.filter((w) => !hypFiltered.includes(w))
missingOf(keyTokens, hypFiltered) ==
  SelectSeq(keyTokens, LAMBDA w : \A k \in 1..Len(hypFiltered) : hypFiltered[k] # w)

\* clamp01(keyTokens.length ? 1 - miss / keyTokens.length : 1)
grammarOf(keyTokens, missing) ==
  clamp(IF Len(keyTokens) > 0
        THEN Scale - RoundDiv(Len(missing) * Scale, Len(keyTokens))
        ELSE Scale)

\* clamp01(0.8 * pron_word + 0.2)
pronPhonOf(pron_word) == clamp(((8 * pron_word) \div 10) + ((2 * Scale) \div 10))

\* mutant: the returned pronunciation is the phonetic blend alone
PronOf_phonOnly(pron_word, pron_phon) == pron_phon

\* clamp01(0.6 * pron_word + 0.4 * pron_phon)
PronOf(pron_word, pron_phon) == clamp(RoundDiv(6 * pron_word + 4 * pron_phon, 10))

\* mutant: the word count is the hypothesis token count alone
wpmOf_tokensOnly(r, audio, transcript, hypTokens) ==
  LET words == Len(hypTokens)
  IN IF IsFinite(audio.f.wpm) THEN audio.f.wpm.v
     ELSE IF IsFinite(audio.f.ms) /\ audio.f.ms.v > 0
          THEN RoundDiv(words * 60000, audio.f.ms.v)
          ELSE 120

\* the resolution of wpm from audio.wpm, audio.ms and the transcript
wpmOf(r, audio, transcript, hypTokens) ==
  LET words == IF Len(hypTokens) # 0 THEN Len(hypTokens)
               ELSE Max(1, wsChunks(String(IF r = 1 THEN transcript
                                           ELSE OrElse(transcript, Str(<< >>)))))
  IN IF IsFinite(audio.f.wpm) THEN audio.f.wpm.v
     ELSE IF IsFinite(audio.f.ms) /\ audio.f.ms.v > 0
          THEN RoundDiv(words * 60000, audio.f.ms.v)
          ELSE 120

\* clamp01(1 - 2 * Math.abs(speedScore - 0.75))
speedOf(wpm) == clamp(Scale - 2 * Abs(speedScoreOf(wpm) - ((75 * Scale) \div 100)))

\* clamp01(audio.silenceRatio ?? 0.15)
silenceOf(audio) == clamp01(Coalesce(audio.f.silenceRatio, Num((15 * Scale) \div 100)))

\* clamp01(0.65 * speed + 0.35 * (1 - silence))
fluencyOf(speed, silence) == clamp(RoundDiv(65 * speed + 35 * (Scale - silence), 100))

pitchStdOf(audio)  == IF IsFinite(audio.f.pitchStd) THEN audio.f.pitchStd.v ELSE 30
pitchMeanOf(audio) == IF IsFinite(audio.f.pitchMean) THEN Max(1, audio.f.pitchMean.v) ELSE 150

\* clamp01((pitchStd / pitchMean - 0.06) / 0.16)
prosodyOf(pitchStd, pitchMean) ==
  clamp(((RoundDiv(pitchStd * Scale, pitchMean) - ((6 * Scale) \div 100)) * 25) \div 4)

\* mutant: the two weight sets are exchanged
Weights_exchanged(hasTarget) ==
  IF hasTarget THEN [wPron |-> 25, wFlu |-> 45, wPro |-> 20, wGrm |-> 10]
  ELSE [wPron |-> 40, wFlu |-> 30, wPro |-> 15, wGrm |-> 15]

\* the weights, in hundredths
Weights(hasTarget) ==
  IF hasTarget THEN [wPron |-> 40, wFlu |-> 30, wPro |-> 15, wGrm |-> 15]
  ELSE [wPron |-> 25, wFlu |-> 45, wPro |-> 20, wGrm |-> 10]

\* clamp01(wPron * Pron + wFlu * fluency + wPro * prosody + wGrm * grammar)
total01Of(w, Pron, fluency, prosody, grammar) ==
  clamp(RoundDiv(w.wPron * Pron + w.wFlu * fluency + w.wPro * prosody
                 + w.wGrm * grammar, 100))

\* mutant: the keyword entry names the last three missing tokens
feedbackRules_lastThree(hasTarget, wer, silence, speed, grammar, missing) ==
  LET fb1 == PushIf(<< >>, hasTarget /\ wer > (25 * Scale) \div 100, Msg("wer", << >>))
      fb2 == PushIf(fb1, silence > (35 * Scale) \div 100, Msg("silence", << >>))
      fb3 == PushIf(fb2, speed < (45 * Scale) \div 100, Msg("rate", << >>))
      fb4 == PushIf(fb3, hasTarget /\ grammar < (8 * Scale) \div 10, Msg("grammar", << >>))
  IN PushIf(fb4, hasTarget /\ Len(missing) # 0,
            Msg("missing", SubSeq(missing, Max(1, Len(missing) - 2), Len(missing))))

\* the five feedback rules, in the order of the push statements
feedbackRules(hasTarget, wer, silence, speed, grammar, missing) ==
  LET fb1 == PushIf(<< >>, hasTarget /\ wer > (25 * Scale) \div 100, Msg("wer", << >>))
      fb2 == PushIf(fb1, silence > (35 * Scale) \div 100, Msg("silence", << >>))
      fb3 == PushIf(fb2, speed < (45 * Scale) \div 100, Msg("rate", << >>))
      fb4 == PushIf(fb3, hasTarget /\ grammar < (8 * Scale) \div 10, Msg("grammar", << >>))
  IN PushIf(fb4, hasTarget /\ Len(missing) # 0,
            Msg("missing", SubSeq(missing, 1, Min(3, Len(missing)))))

\* mutant: the WER is reported whether or not it was evaluated
metaWer_always(hasTarget, wer) ==
  Num(RoundDiv(IF hasTarget THEN wer ELSE 0, Scale \div 1000) * (Scale \div 1000))

\* wer: hasTarget ? +wer.toFixed(3) : null
metaWer(hasTarget, wer) ==
  IF hasTarget THEN Num(RoundDiv(wer, Scale \div 1000) * (Scale \div 1000)) ELSE Null

\* the body from "pronunciation & grammar" to the return statement
scoreBody(r, transcript, audio, guessLocale, refTokens, hypTokens, refFiltered, hypFiltered) ==
  LET hasTarget == hasTargetOf(refTokens)
      wer       == IF hasTarget THEN wordErrorRate(refFiltered, hypFiltered) ELSE Scale
      pron_word == IF hasTarget THEN clamp(Scale - wer) ELSE (8 * Scale) \div 10
      pron_phon == IF hasTarget THEN pronPhonOf(pron_word) ELSE (85 * Scale) \div 100
      keyTokens == IF hasTarget THEN keyTokensOf(refFiltered) ELSE << >>
      missing   == IF hasTarget THEN missingOf(keyTokens, hypFiltered) ELSE << >>
      grammar   == IF hasTarget THEN grammarOf(keyTokens, missing) ELSE Scale
      wpm       == wpmOf(r, audio, transcript, hypTokens)
      speed     == speedOf(wpm)
      silence   == silenceOf(audio)
      fluency   == fluencyOf(speed, silence)
      pitchStd  == pitchStdOf(audio)
      pitchMean == pitchMeanOf(audio)
      prosody   == prosodyOf(pitchStd, pitchMean)
      Pron      == PronOf(pron_word, pron_phon)
      total01   == total01Of(Weights(hasTarget), Pron, fluency, prosody, grammar)
      generated == feedbackRules(hasTarget, wer, silence, speed, grammar, missing)
  IN [ret |->
        [total         |-> Round100(r, total01),
         pronunciation |-> Round100(r, Pron),
         fluency       |-> Round100(r, fluency),
         prosody       |-> Round100(r, prosody),
         grammar       |-> Round100(r, grammar),
         feedback      |-> capFeedback(generated),
         meta |-> [lang      |-> guessLocale,
                   tokens    |-> [ref |-> Len(refTokens), hyp |-> Len(hypTokens)],
                   wer       |-> metaWer(hasTarget, wer),
                   wpm       |-> wpm,
                   silence   |-> silence,
                   pitchStd  |-> pitchStd,
                   pitchMean |-> pitchMean,
                   missing   |-> SubSeq(missing, 1, Min(5, Len(missing)))]],
      \* the locals of the call at its return statement
      frame |->
        [hasTarget |-> hasTarget, wer |-> wer, pron_word |-> pron_word,
         pron_phon |-> pron_phon, grammar |-> grammar, missing |-> missing,
         keyTokens |-> keyTokens, speed |-> speed, silence |-> silence,
         fluency |-> fluency, prosody |-> prosody, Pron |-> Pron,
         total01 |-> total01, generated |-> generated,
         refTokens |-> refTokens, hypTokens |-> hypTokens,
         refFiltered |-> refFiltered, hypFiltered |-> hypFiltered]]

\* scoreAttempt({ transcript, targetText, audio, lang }): Ok(ret, frame) or a throw
scoreAttempt(r, arg) ==
  LET b == bindArgs(r, arg) IN
  IF ~b.ok THEN b
  ELSE
    LET transcript  == b.v.transcript
        targetText  == b.v.targetText
        audio       == b.v.audio
        guessLocale == IF b.v.lang = "auto"
                       THEN guessByText(OrElse(targetText, transcript))
                       ELSE b.v.lang
        langKey     == langKeyOf(guessLocale)
        refT        == tokenize(r, targetText, guessLocale)
        hypT        == tokenize(r, transcript, guessLocale)
        sw          == IF langKey \in DOMAIN STOP(r) THEN STOP(r)[langKey] ELSE {}
    IN IF ~refT.ok THEN refT
       ELSE IF ~hypT.ok THEN hypT
       ELSE IF audio.t = "null" THEN Throw("TypeError")
       ELSE Ok(scoreBody(r, transcript, audio, guessLocale, refT.v, hypT.v,
                         filterStop(r, refT.v, sw), filterStop(r, hypT.v, sw)))

(***************************************************************************)
(* Inputs                                                                  *)
(***************************************************************************)
\* at most this many fields of an audio statistics object are present
MaxAudioFields == 2

PleaseOrderACoffee    == <<"please", "sp", "order", "sp", "a", "sp", "coffee">>
PleaseOrderAHotCoffee == <<"please", "sp", "order", "sp", "a", "sp", "hot", "sp", "coffee">>
CapitalLigature       == <<"Please", "sp", "order", "sp", "a", "sp", "coffee_lig">>
TheACoffee            == <<"the", "sp", "a", "sp", "coffee">>
PleaseOrder           == <<"please", "comma", "sp", "order">>
HashCoffee            == <<"hash", "sp", "coffee", "hash">>
Korean                == <<"annyeonghaseyo", "sp", "mannaseo", "sp", "bangawoyo">>
Ideographs            == <<"nihao", "shijie", "pengyou">>
KanaIdeographs        == <<"konnichiwa", "shijie">>
AllStopWords          == <<"the", "sp", "a", "sp", "the">>
HashHash              == <<"hash", "sp", "hash">>
CapitalPlease         == <<"Please", "sp", "order", "sp", "a", "sp", "coffee">>

ReferenceValues ==
  {Undef, Null, Str(<< >>), Str(PleaseOrderACoffee), Str(PleaseOrderAHotCoffee),
   Str(TheACoffee), Str(PleaseOrder), Str(Korean), Str(Ideographs),
   Str(AllStopWords)}

TranscriptValues ==
  {Undef, Num(5), Str(<< >>), Str(PleaseOrderACoffee), Str(CapitalLigature),
   Str(PleaseOrder), Str(HashCoffee), Str(HashHash), Str(CapitalPlease),
   Str(Korean), Str(Ideographs), Str(KanaIdeographs)}

LangValues == {"auto", "en-US", "xx-XX", "not_a_locale"}

\* values of the audio fields: wpm in words per minute, ms in milliseconds,
\* silenceRatio in fixed point, the pitch fields in Hz
AudioFieldValues ==
  [wpm          |-> {Undef, NaN, Num(110), Num(160), Num(200)},
   ms           |-> {Undef, NaN, Num(0), Num(2000), Num(7000)},
   silenceRatio |-> {Undef, NaN, PosInf, Str(<<"d5">>),
                     Num(Scale \div 10), Num(Scale \div 2)},
   pitchStd     |-> {Undef, NaN, Num(5)},
   pitchMean    |-> {Undef, NegInf, Num(0), Num(100)}]

AudioFields == DOMAIN AudioFieldValues

Present(f) == {k \in AudioFields : f[k] # Undef}

AudioValues ==
  {Undef, Null} \cup
  {Obj(f) : f \in {g \in [wpm : AudioFieldValues.wpm, ms : AudioFieldValues.ms,
                           silenceRatio : AudioFieldValues.silenceRatio,
                           pitchStd : AudioFieldValues.pitchStd,
                           pitchMean : AudioFieldValues.pitchMean] :
                     Cardinality(Present(g)) <= MaxAudioFields}}

\* the argument of a call: none at all, or an object
ArgValues ==
  {Undef} \cup
  {Obj([transcript |-> tr, targetText |-> tt, lang |-> l, audio |-> au]) :
     tr \in TranscriptValues, tt \in ReferenceValues, l \in LangValues,
     au \in AudioValues}

\* token sequences handed to wordErrorRate directly: at most MaxTokens tokens
MaxTokens == 3

WerTokens == {<<"please">>, <<"order">>, <<"coffee">>}

TokenSeqs == UNION {[1..n -> WerTokens] : n \in 0..MaxTokens}

(***************************************************************************)
(* State machine: one scoring call                                         *)
(***************************************************************************)
\* rev, arg, pc, res: the revision, argument, position and outcome of a
\* scoreAttempt call; refArr, hypArr, werOut: the arguments and the result of
\* a direct wordErrorRate call (werOut = -1 before it returns)
VARIABLES rev, arg, pc, res, refArr, hypArr, werOut

\* conn: the variables of the closure of one /stt/stream connection; tasks:
\* the asynchronous function bodies of that connection that are suspended at
\* an await; wire: the messages received and sent on it
VARIABLES conn, tasks, wire

\* sessions: the Map of session histories; pushed: for each session id, all
\* the entries ever pushed to it
VARIABLES sessions, pushed

\* clients: the sockets of the live relay with their isAlive flags;
\* heartbeat: the interval timer and what each client owes it
VARIABLES clients, heartbeat

\* post: the local variables and the position of one POST /stt/score
\* request; disk: the temporary files that exist
VARIABLES post, disk

scoreVars   == <<rev, arg, pc, res, refArr, hypArr, werOut>>
streamVars  == <<conn, tasks, wire>>
historyVars == <<sessions, pushed>>
liveVars    == <<clients, heartbeat>>
postVars    == <<post, disk>>

vars == <<rev, arg, pc, res, refArr, hypArr, werOut, conn, tasks, wire,
          sessions, pushed, clients, heartbeat, post, disk>>

\* no /stt/stream connection is part of the run
NoStream == conn = << >> /\ tasks = << >> /\ wire = << >>

\* no session history, live relay or POST request is part of the run
NoHistory == sessions = << >> /\ pushed = << >>
NoLive    == clients = << >> /\ heartbeat = << >>
NoPost    == post = << >> /\ disk = {}

\* no scoring call is part of the run
NoScore ==
  /\ rev = 2 /\ arg = Undef /\ pc = "none" /\ res = Throw("none")
  /\ refArr = << >> /\ hypArr = << >> /\ werOut = -1

Init ==
  /\ rev \in {1, 2}
  /\ arg \in ArgValues
  /\ pc = "call"
  /\ res = Throw("none")
  /\ refArr = << >>
  /\ hypArr = << >>
  /\ werOut = -1
  /\ NoStream /\ NoHistory /\ NoLive /\ NoPost

\* the call runs to its return statement or to an uncaught exception
Score ==
  /\ pc = "call"
  /\ res' = scoreAttempt(rev, arg)
  /\ pc' = IF res'.ok THEN "returned" ELSE "threw"
  /\ UNCHANGED <<rev, arg, refArr, hypArr, werOut>>
  /\ UNCHANGED <<streamVars, historyVars, liveVars, postVars>>

Next == Score

Spec == Init /\ [][Next]_vars

(***************************************************************************)
(* State machine: one wordErrorRate call on arbitrary token sequences      *)
(***************************************************************************)
InitWER ==
  /\ rev = 2
  /\ arg = Undef
  /\ pc = "wer"
  /\ res = Throw("none")
  /\ refArr \in TokenSeqs
  /\ hypArr \in TokenSeqs
  /\ werOut = -1
  /\ NoStream /\ NoHistory /\ NoLive /\ NoPost

ComputeWER ==
  /\ pc = "wer"
  /\ werOut = -1
  /\ werOut' = wordErrorRate(refArr, hypArr)
  /\ UNCHANGED <<rev, arg, pc, res, refArr, hypArr>>
  /\ UNCHANGED <<streamVars, historyVars, liveVars, postVars>>

NextWER == ComputeWER

SpecWER == InitWER /\ [][NextWER]_vars

(***************************************************************************)
(* State machine: one /stt/stream connection                               *)
(***************************************************************************)
MAX_BYTES == 8 * 1024 * 1024

\* at most MaxChunks binary messages, MaxStops "stop" messages and
\* MaxTimerFires expiries of the interval timer on the connection
MaxChunks     == 3
MaxStops      == 1
MaxTimerFires == 1

\* the lengths of the binary messages
ChunkLengths == {3 * 1024 * 1024, 9 * 1024 * 1024}

\* what transcoding and recognition of a buffer end in: a text, possibly
\* empty, or an exception
Texts    == {"", "hello"}
Outcomes == {Ok(t) : t \in Texts} \cup {Throw("Error")}

\* no function body is suspended
NoJob == [owner |-> -1, buf |-> << >>]

\* the messages passed to ws.send; stop is the number of the "stop" message
\* a terminal message answers, audio the buffer the text was recognised from
Message(type, text, stop, audio) ==
  [type |-> type, text |-> text, stop |-> stop, audio |-> audio]

\* the state after the connection handler has run
Connected ==
  /\ conn = [chunks |-> << >>, firstChunk |-> 0, timer |-> "running",
             lastPartial |-> "", flushing |-> FALSE, totalBytes |-> 0]
  /\ tasks = [flush |-> NoJob,
              stop  |-> [s \in 1..MaxStops |-> [pc |-> "none", buf |-> << >>]]]
  /\ wire = [sent |-> <<Message("ready", "", 0, << >>)>>, binaries |-> 0,
             stops |-> 0, fires |-> 0, open |-> TRUE, recognized |-> {}]

\* the closure variables, the suspended bodies and the wire as one value
World == [c |-> conn, t |-> tasks, x |-> wire]

Becomes(w) == conn' = w.c /\ tasks' = w.t /\ wire' = w.x

send(w, m) == [w EXCEPT !.x.sent = Append(@, m)]

Ids(buf) == {buf[i].id : i \in 1..Len(buf)}

\* mutant: the evicted chunk's length is not taken off the byte count
RECURSIVE Evict_keepTotal(_, _)
Evict_keepTotal(chunks, totalBytes) ==
  IF totalBytes > MAX_BYTES /\ Len(chunks) > 1
  THEN [chunks |-> Evict_keepTotal(Tail(chunks), totalBytes).chunks, totalBytes |-> totalBytes]
  ELSE [chunks |-> chunks, totalBytes |-> totalBytes]

\* while (totalBytes > MAX_BYTES && chunks.length > 1) { ...; chunks.shift() }
RECURSIVE Evict(_, _)
Evict(chunks, totalBytes) ==
  IF totalBytes > MAX_BYTES /\ Len(chunks) > 1
  THEN Evict(Tail(chunks), totalBytes - Head(chunks).len)
  ELSE [chunks |-> chunks, totalBytes |-> totalBytes]

\* the binary branch of the message handler; a chunk carries the number of
\* its message and of the segment (the audio between two stops) it is in
onBinary(w, len) ==
  LET b == [id |-> w.x.binaries + 1, len |-> len, seg |-> w.x.stops + 1]
      e == Evict(Append(w.c.chunks, b), w.c.totalBytes + len)
  IN [w EXCEPT !.c.firstChunk = IF @ = 0 THEN b.id ELSE @,
               !.c.chunks = e.chunks,
               !.c.totalBytes = e.totalBytes,
               !.x.binaries = @ + 1]

\* flushPartial up to its first await: it returns at once when a flush is
\* running or nothing is buffered, else it suspends with the buffer it read
flushPartialBegin(w, owner) ==
  IF w.c.flushing \/ w.c.chunks = << >> THEN w
  ELSE [w EXCEPT !.c.flushing = TRUE,
                 !.t.flush = [owner |-> owner, buf |-> w.c.chunks],
                 !.x.recognized = @ \cup Ids(w.c.chunks)]

\* flushPartial from the return of the recognizer to the end of finally
flushPartialEnd(w, out) ==
  LET w1 == IF out.ok /\ out.v # "" /\ out.v # w.c.lastPartial
            THEN send([w EXCEPT !.c.lastPartial = out.v],
                      Message("partial", out.v, 0, w.t.flush.buf))
            ELSE w
  IN [w1 EXCEPT !.c.flushing = FALSE, !.t.flush = NoJob]

\* the finally block of the stop branch
stopFinally(w, s) ==
  [w EXCEPT !.c.chunks = << >>, !.c.firstChunk = 0, !.c.lastPartial = "",
            !.c.totalBytes = 0, !.t.stop[s] = [pc |-> "done", buf |-> << >>]]

\* the stop branch from the return of flushPartial to its next await
stopAfterFlush(w, s) ==
  IF w.c.chunks # << >>
  THEN [w EXCEPT !.t.stop[s] = [pc |-> "final", buf |-> w.c.chunks],
                 !.x.recognized = @ \cup Ids(w.c.chunks)]
  ELSE stopFinally(send(w, Message("final", "", s, << >>)), s)

\* the stop branch up to its first await
onStop(w) ==
  LET s  == w.x.stops + 1
      w1 == flushPartialBegin([w EXCEPT !.c.timer = "cleared", !.x.stops = s], s)
  IN IF w1.t.flush.owner = s
     THEN [w1 EXCEPT !.t.stop[s] = [pc |-> "flushPartial", buf |-> << >>]]
     ELSE stopAfterFlush(w1, s)

\* the stop branch from the return of the final recognition to its end
stopEnd(w, s, out) ==
  stopFinally(send(w, IF out.ok
                      THEN Message("final", out.v, s, w.t.stop[s].buf)
                      ELSE Message("error", out.err, s, w.t.stop[s].buf)), s)

InitStream == NoScore /\ Connected /\ NoHistory /\ NoLive /\ NoPost

\* a binary message arrives
Binary(len) ==
  /\ wire.open /\ wire.binaries < MaxChunks
  /\ Becomes(onBinary(World, len))
  /\ UNCHANGED <<scoreVars, historyVars, liveVars, postVars>>

\* a "stop" message arrives
Stop ==
  /\ wire.open /\ wire.stops < MaxStops
  /\ Becomes(onStop(World))
  /\ UNCHANGED <<scoreVars, historyVars, liveVars, postVars>>

\* the interval timer expires and calls flushPartial
TimerFire ==
  /\ conn.timer = "running" /\ wire.fires < MaxTimerFires
  /\ Becomes(flushPartialBegin([World EXCEPT !.x.fires = @ + 1], 0))
  /\ UNCHANGED <<scoreVars, historyVars, liveVars, postVars>>

\* the suspended flushPartial resumes; the stop branch that awaits it goes on
FlushDone(out) ==
  /\ tasks.flush # NoJob
  /\ LET w == flushPartialEnd(World, out)
     IN Becomes(IF tasks.flush.owner > 0 THEN stopAfterFlush(w, tasks.flush.owner)
                ELSE w)
  /\ UNCHANGED <<scoreVars, historyVars, liveVars, postVars>>

\* the final recognition of a stop returns or throws
FinalDone(s, out) ==
  /\ tasks.stop[s].pc = "final"
  /\ Becomes(stopEnd(World, s, out))
  /\ UNCHANGED <<scoreVars, historyVars, liveVars, postVars>>

\* the close handler
Close ==
  /\ wire.open
  /\ Becomes([World EXCEPT !.c.timer = "cleared", !.x.open = FALSE])
  /\ UNCHANGED <<scoreVars, historyVars, liveVars, postVars>>

NextStream ==
  \/ \E len \in ChunkLengths : Binary(len)
  \/ Stop
  \/ TimerFire
  \/ \E out \in Outcomes : FlushDone(out)
  \/ \E s \in 1..MaxStops, out \in Outcomes : FinalDone(s, out)
  \/ Close

SpecStream == InitStream /\ [][NextStream]_vars

(***************************************************************************)
(* State machine: the session histories                                    *)
(***************************************************************************)
\* the number of entries a history keeps
HistoryLimit == 12

\* at most MaxPushes calls of pushHistory
MaxPushes == 13

SessionIds == {"s1", "s2"}
Roles      == {"user", "assistant"}
Lines      == {"hello"}

\* sessions.has(sid) ? sessions : sessions.set(sid, [])
withSession(m, sid) ==
  [x \in DOMAIN m \cup {sid} |-> IF x \in DOMAIN m THEN m[x] ELSE << >>]

\* mutant: the entries beyond the limit are cut off at the end
pushHistory_keepOldest(m, sid, role, text) ==
  LET hist == Append(withSession(m, sid)[sid], [role |-> role, text |-> text])
  IN [withSession(m, sid) EXCEPT ![sid] = SubSeq(hist, 1, Min(Len(hist), HistoryLimit))]

\* pushHistory(sid, role, text): the Map after the call
pushHistory(m, sid, role, text) ==
  LET hist == Append(withSession(m, sid)[sid], [role |-> role, text |-> text])
  IN [withSession(m, sid) EXCEPT ![sid] =
        IF Len(hist) > HistoryLimit
        THEN SubSeq(hist, Len(hist) - HistoryLimit + 1, Len(hist))
        ELSE hist]

RECURSIVE TotalPushed(_)
TotalPushed(S) ==
  IF S = {} THEN 0
  ELSE LET sid == CHOOSE x \in S : TRUE
       IN Len(pushed[sid]) + TotalPushed(S \ {sid})

InitHistory ==
  /\ NoScore /\ NoStream /\ NoLive /\ NoPost
  /\ sessions = << >>
  /\ pushed = [sid \in SessionIds |-> << >>]

\* a handler calls pushHistory
Push(sid, role, text) ==
  /\ TotalPushed(SessionIds) < MaxPushes
  /\ sessions' = pushHistory(sessions, sid, role, text)
  /\ pushed' = [pushed EXCEPT ![sid] = Append(@, [role |-> role, text |-> text])]
  /\ UNCHANGED <<scoreVars, streamVars, liveVars, postVars>>

NextHistory == \E sid \in SessionIds, role \in Roles, text \in Lines : Push(sid, role, text)

SpecHistory == InitHistory /\ [][NextHistory]_vars

(***************************************************************************)
(* State machine: the heartbeat of the live relay                          *)
(***************************************************************************)
\* at most MaxTicks expiries of the heartbeat interval
MaxTicks == 3

Clients == {"a", "b"}

\* wss.clients: the sockets that are open
IsClient(cl, c) == cl[c].state = "open"

\* the connection handler: ws.isAlive = true
onConnection(cl, c) == [cl EXCEPT ![c] = [state |-> "open", isAlive |-> TRUE]]

\* mutant: the pong handler leaves isAlive as it is
onPong_ignored(cl, c) == cl

\* the pong handler: ws.isAlive = true
onPong(cl, c) == [cl EXCEPT ![c].isAlive = TRUE]

\* the interval callback, for every socket of wss.clients
onTick(cl) ==
  [c \in DOMAIN cl |->
     IF ~IsClient(cl, c) THEN cl[c]
     ELSE IF ~cl[c].isAlive THEN [cl[c] EXCEPT !.state = "terminated"]
     ELSE [cl[c] EXCEPT !.isAlive = FALSE]]

\* heartbeat.owes[c]: a ping has been sent to c and c has sent no pong since;
\* heartbeat.seen[c]: the number of ticks since c connected
InitLive ==
  /\ NoScore /\ NoStream /\ NoHistory /\ NoPost
  /\ clients = [c \in Clients |-> [state |-> "none", isAlive |-> FALSE]]
  /\ heartbeat = [interval |-> "running", ticks |-> 0,
                  owes |-> [c \in Clients |-> FALSE],
                  seen |-> [c \in Clients |-> 0]]

\* a client connects
Connect(c) ==
  /\ clients[c].state = "none"
  /\ clients' = onConnection(clients, c)
  /\ heartbeat' = [heartbeat EXCEPT !.owes[c] = FALSE, !.seen[c] = 0]
  /\ UNCHANGED <<scoreVars, streamVars, historyVars, postVars>>

\* a pong of a client arrives
Pong(c) ==
  /\ IsClient(clients, c)
  /\ clients' = onPong(clients, c)
  /\ heartbeat' = [heartbeat EXCEPT !.owes[c] = FALSE]
  /\ UNCHANGED <<scoreVars, streamVars, historyVars, postVars>>

\* the heartbeat interval expires: the sockets that stay are pinged
Tick ==
  /\ heartbeat.interval = "running" /\ heartbeat.ticks < MaxTicks
  /\ clients' = onTick(clients)
  /\ heartbeat' =
       [heartbeat EXCEPT
          !.ticks = @ + 1,
          !.owes = [c \in Clients |-> IF IsClient(clients', c) THEN TRUE ELSE @[c]],
          !.seen = [c \in Clients |-> IF IsClient(clients, c) THEN @[c] + 1 ELSE @[c]]]
  /\ UNCHANGED <<scoreVars, streamVars, historyVars, postVars>>

\* a client closes its socket
Leave(c) ==
  /\ IsClient(clients, c)
  /\ clients' = [clients EXCEPT ![c].state = "closed"]
  /\ UNCHANGED heartbeat
  /\ UNCHANGED <<scoreVars, streamVars, historyVars, postVars>>

\* the server closes: clearInterval(interval)
ServerClose ==
  /\ heartbeat.interval = "running"
  /\ heartbeat' = [heartbeat EXCEPT !.interval = "cleared"]
  /\ UNCHANGED clients
  /\ UNCHANGED <<scoreVars, streamVars, historyVars, postVars>>

NextLive ==
  \/ \E c \in Clients : Connect(c)
  \/ \E c \in Clients : Pong(c)
  \/ Tick
  \/ \E c \in Clients : Leave(c)
  \/ ServerClose

SpecLive == InitLive /\ [][NextLive]_vars

(***************************************************************************)
(* State machine: one POST /stt/score request                              *)
(***************************************************************************)
\* the texts of the form field target and of the recognizers' results
PostTexts == {<< >>, PleaseOrderACoffee}

\* how an awaited recognition ends
SttOutcomes == {Ok(t) : t \in PostTexts} \cup {Throw("Error")}

\* the request and the temporary files as one value
Request == [p |-> post, d |-> disk]

Handled(w) == post' = w.p /\ disk' = w.d

\* res.status(code).json(...)
respond(w, code) == [w EXCEPT !.p.responses = Append(@, code)]

\* the finally block up to its first await
finallyBlock(w) ==
  IF w.p.inPath THEN [w EXCEPT !.p.pc = "unlinkIn"]
  ELSE IF w.p.outPath THEN [w EXCEPT !.p.pc = "unlinkOut"]
  ELSE [w EXCEPT !.p.pc = "done"]

\* the outer catch block, entered from the step that threw
catchBlock(w, step) == finallyBlock(respond([w EXCEPT !.p.failure = step], 500))

\* a temporary file of the request comes into being
creates(w, f) == [w EXCEPT !.d = @ \cup {f}, !.p.created = @ \cup {f}]

\* if (wantTTS) { await synth(...) } and the response
ttsStage(w) ==
  IF w.p.tts THEN [w EXCEPT !.p.pc = "tts"] ELSE finallyBlock(respond(w, 200))

\* if (wantCoach) { await withTimeout(gen.generateContent(...), 6000) }
coachStage(w) == IF w.p.coach THEN [w EXCEPT !.p.pc = "coach"] ELSE ttsStage(w)

\* from the transcript to the next await: scoring (lang and audio are not
\* passed and take their defaults), then the optional steps
scored(w) ==
  LET scoring == scoreAttempt(rev, Obj([transcript |-> Str(w.p.transcript),
                                        targetText |-> Str(w.p.target),
                                        lang |-> "auto", audio |-> Undef]))
  IN IF ~scoring.ok THEN catchBlock(w, "scoreAttempt")
     ELSE IF w.p.semantic /\ w.p.target # << >> /\ w.p.transcript # << >>
          THEN [w EXCEPT !.p.pc = "embed"]
          ELSE coachStage(w)

\* the catch block of the v2 call up to its await
onV2Error(w) ==
  IF w.p.useV1Fallback
  THEN [w EXCEPT !.p.v2Failed = TRUE, !.p.v1Tried = TRUE, !.p.pc = "v1"]
  ELSE catchBlock([w EXCEPT !.p.v2Failed = TRUE], "stt")

\* an optional step that did not deliver is skipped
skip(w, step, out) ==
  IF out = "ok" THEN w
  ELSE [w EXCEPT !.p.skipped = @ \cup {step},
                 !.p.timedOut = IF out = "timeout" THEN @ \cup {step} ELSE @]

\* one request: its upload (no file, a file of no bytes, a file with bytes),
\* its form fields and the environment
InitPost ==
  /\ rev \in {1, 2} /\ arg = Undef /\ pc = "none" /\ res = Throw("none")
  /\ refArr = << >> /\ hypArr = << >> /\ werOut = -1
  /\ NoStream /\ NoHistory /\ NoLive
  /\ \E file \in {"missing", "empty", "audio"}, target \in PostTexts,
        semantic, coach, tts, env \in BOOLEAN :
       post = [pc |-> "start", file |-> file, target |-> target,
               semantic |-> semantic, coach |-> coach, tts |-> tts,
               useV1Fallback |-> env, inPath |-> FALSE, outPath |-> FALSE,
               transcript |-> << >>, responses |-> << >>,
               v2Failed |-> FALSE, v1Tried |-> FALSE, wavEmpty |-> FALSE,
               failure |-> "none", skipped |-> {}, timedOut |-> {}, created |-> {}]
  /\ disk = {}

\* the handler up to its first await
Begin ==
  /\ post.pc = "start"
  /\ Handled(IF post.file \in {"missing", "empty"}
             THEN finallyBlock(respond(Request, 400))
             ELSE [Request EXCEPT !.p.inPath = TRUE, !.p.outPath = TRUE,
                                  !.p.pc = "writeFile"])
  /\ UNCHANGED <<scoreVars, streamVars, historyVars, liveVars>>

\* await fs.writeFile(inPath, req.file.buffer) ends
WriteFileDone(out) ==
  /\ post.pc = "writeFile"
  /\ Handled(IF out = "ok" THEN [creates(Request, "in") EXCEPT !.p.pc = "toLinear16"]
             ELSE catchBlock(Request, "writeFile"))
  /\ UNCHANGED <<scoreVars, streamVars, historyVars, liveVars>>

\* await toLinear16(inPath, outPath) ends: ffmpeg succeeds, or fails with or
\* without a partial output file
ToLinear16Done(out) ==
  /\ post.pc = "toLinear16"
  /\ Handled(IF out = "ok" THEN [creates(Request, "out") EXCEPT !.p.pc = "readFile"]
             ELSE IF out = "partial" THEN catchBlock(creates(Request, "out"), "toLinear16")
             ELSE catchBlock(Request, "toLinear16"))
  /\ UNCHANGED <<scoreVars, streamVars, historyVars, liveVars>>

\* await fs.readFile(outPath) ends
ReadFileDone(out) ==
  /\ post.pc = "readFile"
  /\ Handled(IF out = "bytes" THEN [Request EXCEPT !.p.pc = "v2"]
             ELSE IF out = "empty"
                  THEN finallyBlock(respond([Request EXCEPT !.p.wavEmpty = TRUE], 400))
                  ELSE catchBlock(Request, "readFile"))
  /\ UNCHANGED <<scoreVars, streamVars, historyVars, liveVars>>

\* await sttV2RecognizeBase64(...) ends
V2Done(out) ==
  /\ post.pc = "v2"
  /\ Handled(IF out.ok THEN scored([Request EXCEPT !.p.transcript = out.v])
             ELSE onV2Error(Request))
  /\ UNCHANGED <<scoreVars, streamVars, historyVars, liveVars>>

\* await sttV1.recognize(v1req) ends
V1Done(out) ==
  /\ post.pc = "v1"
  /\ Handled(IF out.ok THEN scored([Request EXCEPT !.p.transcript = out.v])
             ELSE catchBlock(Request, "stt"))
  /\ UNCHANGED <<scoreVars, streamVars, historyVars, liveVars>>

\* the embedding call ends or its withTimeout rejects
EmbedDone(out) ==
  /\ post.pc = "embed"
  /\ Handled(coachStage(skip(Request, "embed", out)))
  /\ UNCHANGED <<scoreVars, streamVars, historyVars, liveVars>>

\* the coaching call ends or its withTimeout rejects
CoachDone(out) ==
  /\ post.pc = "coach"
  /\ Handled(ttsStage(skip(Request, "coach", out)))
  /\ UNCHANGED <<scoreVars, streamVars, historyVars, liveVars>>

\* await synth(speakLine, langForHints) ends
SynthDone(out) ==
  /\ post.pc = "tts"
  /\ Handled(finallyBlock(respond(skip(Request, "tts", out), 200)))
  /\ UNCHANGED <<scoreVars, streamVars, historyVars, liveVars>>

\* 6000 ms pass while synth is pending: no timer of the handler expires
SynthOverdue ==
  /\ post.pc = "tts"
  /\ "tts" \notin post.timedOut
  /\ Handled([Request EXCEPT !.p.timedOut = @ \cup {"tts"}])
  /\ UNCHANGED <<scoreVars, streamVars, historyVars, liveVars>>

\* try { if (inPath) await fs.unlink(inPath); } catch {}
UnlinkInDone ==
  /\ post.pc = "unlinkIn"
  /\ Handled([Request EXCEPT !.d = @ \ {"in"},
                             !.p.pc = IF post.outPath THEN "unlinkOut" ELSE "done"])
  /\ UNCHANGED <<scoreVars, streamVars, historyVars, liveVars>>

\* try { if (outPath) await fs.unlink(outPath); } catch {}
UnlinkOutDone ==
  /\ post.pc = "unlinkOut"
  /\ Handled([Request EXCEPT !.d = @ \ {"out"}, !.p.pc = "done"])
  /\ UNCHANGED <<scoreVars, streamVars, historyVars, liveVars>>

NextPost ==
  \/ Begin
  \/ \E out \in {"ok", "error"} : WriteFileDone(out)
  \/ \E out \in {"ok", "error", "partial"} : ToLinear16Done(out)
  \/ \E out \in {"bytes", "empty", "error"} : ReadFileDone(out)
  \/ \E out \in SttOutcomes : V2Done(out)
  \/ \E out \in SttOutcomes : V1Done(out)
  \/ \E out \in {"ok", "error", "timeout"} : EmbedDone(out)
  \/ \E out \in {"ok", "error", "timeout"} : CoachDone(out)
  \/ \E out \in {"ok", "error"} : SynthDone(out)
  \/ SynthOverdue
  \/ UnlinkInDone
  \/ UnlinkOutDone

SpecPost == InitPost /\ [][NextPost]_vars

(***************************************************************************)
(* Properties                                                              *)
(***************************************************************************)
Ret   == res.v.ret
Frame == res.v.frame

Returned == pc = "returned"

Scores(ret) ==
  <<ret.total, ret.pronunciation, ret.fluency, ret.prosody, ret.grammar>>

\* the text of a text field, read as the empty string when it is nullish
TextOf(x) == IF x.t \in {"undefined", "null"} THEN << >> ELSE String(x)

EmptyText(x) == TextOf(x) = << >>

\* C1: the WER computed by wordErrorRate for a scoring call, and the WER
\* reported in the diagnostics, lie in [0,1]
C1_WerInUnitInterval ==
  (Returned /\ Frame.hasTarget) =>
     /\ Frame.wer \in 0..Scale
     /\ Ret.meta.wer.v \in 0..Scale

\* C2: scoreAttempt never throws, whatever the shape of its input
C2_NeverThrows == pc # "threw"

\* C3: every returned sub-score and the total is an integer in [0,100]
C3_ScoresInRange ==
  Returned => \A i \in 1..5 : Scores(Ret)[i] \in 0..100

\* C3 witness: a call whose raw WER exceeds 1 and whose prosody ratio is
\* below the band returns
C3_Witness ==
  Returned /\ rev = 2 /\ Frame.wer > Scale /\ Ret.prosody = 0 /\ Ret.grammar = 100

\* the classification of section 4.1: Hangul, else kana, else ideographs
ClaimedLocale(s) ==
  IF HasScript(s, "hangul") THEN "ko-KR"
  ELSE IF HasScript(s, "kana") THEN "ja-JP"
  ELSE IF HasScript(s, "han") THEN "zh-CN"
  ELSE "en-US"

\* C4: with hint "auto" the locale is inferred from the reference, or from
\* the transcript when the reference is empty, in the order Hangul, kana,
\* ideographs, en-US; ideographs alone give zh-CN
C4_LocaleInference ==
  (Returned /\ arg.t = "object" /\ arg.f.lang = "auto") =>
     Ret.meta.lang =
       ClaimedLocale(IF EmptyText(arg.f.targetText) THEN TextOf(arg.f.transcript)
                     ELSE TextOf(arg.f.targetText))

NonFinite(x) == x.t \notin {"undefined", "number"}

\* C5: a non-finite audio field gives the scores of the same call with the
\* field omitted
C5_NonFiniteAsAbsent ==
  (Returned /\ arg.t = "object" /\ arg.f.audio.t = "object") =>
     \A k \in {"wpm", "silenceRatio", "pitchStd", "pitchMean"} :
        NonFinite(arg.f.audio.f[k]) =>
          LET omitted == scoreAttempt(rev, [arg EXCEPT !.f.audio.f[k] = Undef])
          IN omitted.ok /\ Scores(omitted.v.ret) = Scores(Ret)

\* C6: an explicit hint is used verbatim and tokenization does not throw for
\* it; a hint the platform rejects gives the tokens of the fallback split
C6_HintNeverThrows ==
  (/\ pc # "call" /\ arg.t = "object" /\ arg.f.lang # "auto"
   /\ arg.f.transcript.t \in {"undefined", "string"}
   /\ arg.f.targetText.t \in {"undefined", "null", "string"}
   /\ arg.f.audio.t # "null") =>
     /\ res.ok
     /\ Ret.meta.lang = arg.f.lang
     /\ ~ValidLocale(arg.f.lang) =>
          /\ Frame.refTokens = split(NFKC(TextOf(arg.f.targetText)), << >>, << >>)
          /\ Frame.hypTokens = split(NFKC(TextOf(arg.f.transcript)), << >>, << >>)

\* an empty transcript against a reference of at least 3 tokens one of whose
\* content tokens is longer than one character
EmptyAgainstReference ==
  /\ Returned /\ arg.t = "object"
  /\ arg.f.transcript \in {Undef, Str(<< >>)}
  /\ Len(Frame.refTokens) >= 3
  /\ \E i \in 1..Len(Frame.refFiltered) : TokenLength(Frame.refFiltered[i]) > 1

\* C7 as claimed: ... hasReference, WER 1, grammar 0, pronunciation about 20
C7_Original ==
  EmptyAgainstReference =>
     /\ Frame.hasTarget
     /\ Ret.meta.wer = Num(Scale)
     /\ Ret.grammar = 0
     /\ Ret.pronunciation \in 15..25

\* C7: for an empty transcript against a reference of at least 3 tokens with
\* a content token longer than one character, hasReference is true, the WER
\* is 1, grammar is 0 and pronunciation is 8 (0.4 times the 0.2 floor)
C7_EmptyTranscript ==
  EmptyAgainstReference =>
     /\ Frame.hasTarget
     /\ Ret.meta.wer = Num(Scale)
     /\ Ret.grammar = 0
     /\ Ret.pronunciation = 8

C7_Witness ==
  /\ EmptyAgainstReference
  /\ arg.f.targetText = Str(PleaseOrderACoffee)
  /\ Frame.refFiltered = <<<<"please">>, <<"order">>, <<"coffee">>>>
  /\ Ret.pronunciation = 8

\* both texts empty (or the call made with no argument at all)
BothEmpty ==
  /\ Returned
  /\ \/ arg.t = "undefined"
     \/ arg.t = "object" /\ EmptyText(arg.f.transcript) /\ EmptyText(arg.f.targetText)

NoAudio == arg.t = "undefined" \/ arg.f.audio.t = "undefined"

FreeTalkDefaults ==
  /\ ~Frame.hasTarget
  /\ Ret.pronunciation = 82
  /\ Ret.grammar = 100
  /\ NoAudio => (Ret.fluency = 43 /\ Ret.prosody = 88 /\ Ret.total = 67)

\* C8 as claimed: ... and the WER of the diagnostics is 0
C8_Original == BothEmpty => (FreeTalkDefaults /\ Ret.meta.wer = Num(0))

\* C8: when transcript and reference are both empty, hasReference is false,
\* every sub-score takes its free-talk default, and the WER of the
\* diagnostics is null (not evaluated)
C8_BothEmpty == BothEmpty => (FreeTalkDefaults /\ Ret.meta.wer = Null)

C8_Witness ==
  BothEmpty /\ arg.t = "object" /\ NoAudio /\ Ret.total = 67 /\ Ret.meta.wer = Null

\* C9: hasReference holds exactly when the reference has at least 3 tokens
\* before stop-word filtering, and grammar is 100 whenever it does not hold
C9_HasReference ==
  Returned =>
     /\ Frame.hasTarget <=> Ret.meta.tokens.ref >= 3
     /\ (Ret.meta.wer # Null) <=> Ret.meta.tokens.ref >= 3
     /\ ~Frame.hasTarget => Ret.grammar = 100

\* C9 witness: a reference of 3 tokens of which stop-word filtering keeps 1
C9_Witness ==
  /\ Returned /\ Frame.hasTarget
  /\ Len(Frame.refTokens) = 3 /\ Len(Frame.refFiltered) = 1

\* C10: the feedback list has at most 4 entries; when all five rules fire the
\* first four are kept, in order, and the missing-keywords entry is dropped
C10_FeedbackCap ==
  Returned =>
     /\ Len(Ret.feedback) <= 4
     /\ Len(Frame.generated) = 5 =>
          /\ Ret.feedback = SubSeq(Frame.generated, 1, 4)
          /\ [i \in 1..4 |-> Ret.feedback[i].rule] = <<"wer", "silence", "rate", "grammar">>

C10_Witness ==
  Returned /\ Len(Frame.generated) = 5 /\ Len(Ret.feedback) = 4


\* C11: wordErrorRate(X, X) = 0, and a transcript identical to its reference
\* of at least 3 tokens is scored with WER 0, pronunciation 100, grammar 100
C11_IdenticalIsPerfect ==
  Returned =>
     /\ wordErrorRate(Frame.refFiltered, Frame.refFiltered) = 0
     /\ wordErrorRate(Frame.hypTokens, Frame.hypTokens) = 0
     /\ (arg.t = "object" /\ arg.f.transcript = arg.f.targetText /\ Frame.hasTarget) =>
          /\ Frame.wer = 0
          /\ Ret.meta.wer = Num(0)
          /\ Ret.pronunciation = 100
          /\ Ret.grammar = 100

\* C11 witness: the Korean sentence scored against itself with hint "auto"
C11_Witness ==
  /\ Returned /\ arg.t = "object"
  /\ arg.f.transcript = Str(Korean) /\ arg.f.targetText = Str(Korean)
  /\ Ret.meta.lang = "ko-KR" /\ Ret.meta.tokens.ref = 3
  /\ Ret.meta.wer = Num(0) /\ Ret.pronunciation = 100


\* the weights of section 4.6, in hundredths: pronunciation, fluency,
\* prosody, grammar
ClaimedWeights(hasReference) ==
  IF hasReference THEN <<40, 30, 15, 15>> ELSE <<25, 45, 20, 10>>

\* C12: total = round(100 * clamp01(sum of weight * sub-score)) over the
\* unrounded sub-scores, with weights 0.40/0.30/0.15/0.15 when hasReference
\* and 0.25/0.45/0.20/0.10 otherwise; each weight set sums to 1
C12_WeightedTotal ==
  Returned =>
     LET w   == ClaimedWeights(Frame.hasTarget)
         sum == w[1] * Frame.Pron + w[2] * Frame.fluency
                + w[3] * Frame.prosody + w[4] * Frame.grammar
     IN /\ w[1] + w[2] + w[3] + w[4] = 100
        /\ Ret.total = RoundDiv(Max(0, Min(Scale, RoundDiv(sum, 100))), Scale \div 100)

\* C12 witness: a call with a reference whose four sub-scores all differ
C12_Witness ==
  /\ Returned /\ Frame.hasTarget
  /\ Cardinality({Ret.pronunciation, Ret.fluency, Ret.prosody, Ret.grammar}) = 4
  /\ Ret.total \notin {0, 100}


\* the stop-word set of the locale a call used
StopSetUsed ==
  LET k == langKeyOf(Ret.meta.lang)
  IN IF k \in DOMAIN STOP(rev) THEN STOP(rev)[k] ELSE {}

\* the reference tokens that are not stop words and are longer than one
\* character, in reference order
ContentTokens ==
  SelectSeq(Frame.refTokens,
            LAMBDA w : LowerCase(w) \notin StopSetUsed /\ TokenLength(w) > 1)

\* an empty transcript, a reference of at least 3 tokens, no audio statistics
EmptyNoAudio ==
  /\ Returned /\ arg.t = "object"
  /\ arg.f.transcript \in {Undef, Str(<< >>)}
  /\ \/ arg.f.audio = Undef
     \/ arg.f.audio.t = "object" /\ Present(arg.f.audio.f) = {}
  /\ Ret.meta.tokens.ref >= 3

\* the feedback holds the keyword entry naming the first up-to-3 content tokens
KeywordEntryPresent ==
  \E i \in 1..Len(Ret.feedback) :
     /\ Ret.feedback[i].rule = "missing"
     /\ Ret.feedback[i].words = SubSeq(ContentTokens, 1, Min(3, Len(ContentTokens)))

\* C13 as claimed: for every reference of at least 3 tokens
C13_Original == EmptyNoAudio => KeywordEntryPresent

\* C13: for an empty transcript, no audio statistics and a reference of at
\* least 3 tokens one of which is a content token (not a stop word, longer
\* than one character), the feedback contains the missing-keywords entry,
\* naming the first up-to-3 content tokens in reference order
C13_MissingKeywords == (EmptyNoAudio /\ ContentTokens # << >>) => KeywordEntryPresent

\* C13 witness: "please order a hot coffee" has four content tokens
C13_Witness ==
  /\ EmptyNoAudio /\ arg.f.targetText = Str(PleaseOrderAHotCoffee)
  /\ Len(ContentTokens) = 4
  /\ Ret.feedback[Len(Ret.feedback)].words = <<<<"please">>, <<"order">>, <<"hot">>>>


\* the least number of unit-cost insertions, deletions and substitutions
\* turning a into b, by the defining recursion on the last tokens
RECURSIVE MinEdit(_, _)
MinEdit(a, b) ==
  IF Len(a) = 0 THEN Len(b)
  ELSE IF Len(b) = 0 THEN Len(a)
  ELSE LET a1 == SubSeq(a, 1, Len(a) - 1)
           b1 == SubSeq(b, 1, Len(b) - 1)
       IN IF a[Len(a)] = b[Len(b)] THEN MinEdit(a1, b1)
          ELSE 1 + Min(MinEdit(a1, b1), Min(MinEdit(a1, b), MinEdit(a, b1)))

\* C15: for a non-empty reference wordErrorRate is the minimum edit distance
\* divided by the reference length (to the nearest millionth); it is 0 when
\* both sequences are empty and 1 when only the reference is empty
C15_MinimumEditDistance ==
  (pc = "wer" /\ werOut # -1) =>
     /\ (Len(refArr) > 0) =>
           2 * Abs(werOut * Len(refArr) - MinEdit(refArr, hypArr) * Scale) <= Len(refArr)
     /\ (Len(refArr) = 0 /\ Len(hypArr) = 0) => werOut = 0
     /\ (Len(refArr) = 0 /\ Len(hypArr) > 0) => werOut = Scale

\* C15 witness: a deletion, a substitution and an insertion, 3 edits over 2
C15_Witness ==
  /\ pc = "wer"
  /\ refArr = <<<<"please">>, <<"order">>>>
  /\ hypArr = <<<<"order">>, <<"coffee">>, <<"coffee">>>>
  /\ werOut = 3 * (Scale \div 2)


\* a call that supplied a finite audio.wpm
WpmSupplied ==
  /\ Returned /\ arg.t = "object" /\ arg.f.audio.t = "object"
  /\ IsFinite(arg.f.audio.f.wpm)

\* C16: the speed component is highest at 135 wpm, takes the same value at
\* 135+d and 135-d, and does not increase as the distance from 135 grows
C16_SpeedPeaksAtIdeal ==
  WpmSupplied =>
     LET w == arg.f.audio.f.wpm.v
     IN /\ Frame.speed <= speedOf(135)
        /\ Frame.speed = speedOf(270 - w)
        /\ \A w2 \in 0..270 :
              Abs(w2 - 135) >= Abs(w - 135) => speedOf(w2) <= Frame.speed

\* the speaking-rate entry is in the feedback
RateEntryPresent == \E i \in 1..Len(Ret.feedback) : Ret.feedback[i].rule = "rate"

\* C17: the speaking-rate entry is emitted exactly when the resolved wpm lies
\* outside the 110-160 band the message names
C17_RateFeedbackOutsideBand ==
  Returned => (RateEntryPresent <=> (Ret.meta.wpm < 110 \/ Ret.meta.wpm > 160))


\* the fields of a call as the claims name them
TranscriptArg == IF arg.t = "object" THEN arg.f.transcript ELSE Undef

AudioArg(k) ==
  IF arg.t = "object" /\ arg.f.audio.t = "object" THEN arg.f.audio.f[k] ELSE Undef

\* the number of maximal runs of non-space characters of a text
ChunkCount(t) ==
  Cardinality({i \in 1..Len(t) : ~IsSpace(t[i]) /\ (i = 1 \/ IsSpace(t[i - 1]))})

\* q is x / (ms / 60000) rounded to the nearest integer
NearestPerMinute(q, x, ms) == 2 * Abs(q * ms - x * 60000) <= ms

\* C18 as claimed: the derived value is the hypothesis token count over the
\* duration in minutes, 0 for an empty transcript
C18_Original ==
  Returned =>
     IF IsFinite(AudioArg("wpm")) THEN Ret.meta.wpm = AudioArg("wpm").v
     ELSE IF IsFinite(AudioArg("ms")) /\ AudioArg("ms").v > 0
          THEN Ret.meta.wpm * AudioArg("ms").v = Ret.meta.tokens.hyp * 60000
          ELSE Ret.meta.wpm = 120

\* C18: wpm is the provided finite audio.wpm if any; otherwise, when audio.ms
\* is finite and positive, the word count divided by ms/60000 and rounded to
\* the nearest integer, the word count being the hypothesis token count or,
\* when that is 0, the number of whitespace-separated chunks of the
\* transcript and at least 1; otherwise 120
C18_WpmResolution ==
  Returned =>
     LET words == IF Ret.meta.tokens.hyp > 0 THEN Ret.meta.tokens.hyp
                  ELSE Max(1, ChunkCount(TextOf(TranscriptArg)))
     IN IF IsFinite(AudioArg("wpm")) THEN Ret.meta.wpm = AudioArg("wpm").v
        ELSE IF IsFinite(AudioArg("ms")) /\ AudioArg("ms").v > 0
             THEN NearestPerMinute(Ret.meta.wpm, words, AudioArg("ms").v)
             ELSE Ret.meta.wpm = 120

\* C18 witness: "# #" has no token and two chunks, 2 words in 2 s is 60 wpm
C18_Witness ==
  /\ Returned /\ TranscriptArg = Str(HashHash)
  /\ AudioArg("wpm") = Undef /\ AudioArg("ms") = Num(2000)
  /\ Ret.meta.tokens.hyp = 0
  /\ Ret.meta.wpm = 60


\* the position of a rule in the fixed order of the five rules
RuleOrder ==
  [rule \in {"wer", "silence", "rate", "grammar", "missing"} |->
     CASE rule = "wer"     -> 1
       [] rule = "silence" -> 2
       [] rule = "rate"    -> 3
       [] rule = "grammar" -> 4
       [] rule = "missing" -> 5]

\* C19: the feedback is a subsequence of the five rule messages in the order
\* WER, silence, rate, grammar, missing keywords, each at most once; without
\* a reference (fewer than 3 reference tokens) it holds at most the silence
\* and rate entries
C19_FeedbackOrder ==
  Returned =>
     LET fb == Ret.feedback
     IN /\ \A i \in 1..Len(fb) : fb[i].rule \in DOMAIN RuleOrder
        /\ \A i, j \in 1..Len(fb) :
              i < j => RuleOrder[fb[i].rule] < RuleOrder[fb[j].rule]
        /\ (Ret.meta.tokens.ref < 3) =>
              \A i \in 1..Len(fb) : fb[i].rule \in {"silence", "rate"}

\* C19 witness: a free-talk call with long pauses and the default rate gets
\* the silence and the rate entry, in that order
C19_Witness ==
  /\ Returned /\ Ret.meta.tokens.ref = 0 /\ Ret.meta.tokens.hyp > 0
  /\ Len(Ret.feedback) = 2
  /\ Ret.feedback[1].rule = "silence" /\ Ret.feedback[2].rule = "rate"


\* the number of content tokens of the reference that occur nowhere among the
\* hypothesis tokens
MissingCount ==
  Cardinality({i \in 1..Len(ContentTokens) :
                 \A k \in 1..Len(Frame.hypTokens) : Frame.hypTokens[k] # ContentTokens[i]})

\* C20: with a reference (at least 3 reference tokens), grammar is
\* 1 - missingCount/keyTokenCount over the reference tokens that survive the
\* stop-word filter and are longer than one character, and 1 when there is
\* no such token; the returned grammar is that value as a percentage
C20_GrammarCoverage ==
  (Returned /\ Ret.meta.tokens.ref >= 3) =>
     LET keys == Len(ContentTokens)
     IN IF keys = 0
        THEN Frame.grammar = Scale /\ Ret.grammar = 100
        ELSE /\ 2 * Abs((Scale - Frame.grammar) * keys - MissingCount * Scale) <= keys
             /\ 2 * Abs((100 - Ret.grammar) * keys - MissingCount * 100) <= keys

\* C20 witness: one of three key tokens is missing
C20_Witness ==
  /\ Returned /\ Ret.meta.tokens.ref >= 3
  /\ Len(ContentTokens) = 3 /\ MissingCount = 1
  /\ Ret.grammar = 67


\* the transcript and the reference are strings that differ, and only in
\* letter case
CaseOnlyDifference ==
  /\ Returned /\ arg.t = "object"
  /\ arg.f.transcript.t = "string" /\ arg.f.targetText.t = "string"
  /\ arg.f.transcript.s # arg.f.targetText.s
  /\ LowerCase(arg.f.transcript.s) = LowerCase(arg.f.targetText.s)

\* C21: a transcript that differs from its reference only in letter case
\* yields the token sequence of the reference, and is scored with WER 0 and
\* no missing keyword
C21_CaseInsensitive ==
  CaseOnlyDifference =>
     /\ Frame.hypTokens = Frame.refTokens
     /\ Frame.hasTarget => (Frame.wer = 0 /\ Frame.missing = << >>)


\* the characters of a token sequence, in order
RECURSIVE Flatten(_)
Flatten(toks) == IF toks = << >> THEN << >> ELSE Head(toks) \o Flatten(Tail(toks))

\* a is b with some elements left out
RECURSIVE IsSubsequence(_, _)
IsSubsequence(a, b) ==
  IF a = << >> THEN TRUE
  ELSE IF b = << >> THEN FALSE
  ELSE IF Head(a) = Head(b) THEN IsSubsequence(Tail(a), Tail(b))
  ELSE IsSubsequence(a, Tail(b))

\* the tokens of a text field are non-empty, each holds a letter or a digit,
\* and they lie in the normalised text from left to right
WellFormedTokens(toks, x) ==
  /\ \A i \in 1..Len(toks) :
        toks[i] # << >> /\ \E k \in 1..Len(toks[i]) : IsWord(toks[i][k])
  /\ IsSubsequence(LowerCase(Flatten(toks)), LowerCase(NFKC(TextOf(x))))

\* C22: every token returned by tokenize contains at least one letter or
\* digit, and the tokens appear in their left-to-right order in the text, on
\* the segmenter path and on the fallback split path
C22_TokensHaveLetterOrDigit ==
  Returned =>
     /\ WellFormedTokens(Frame.refTokens, IF arg.t = "object" THEN arg.f.targetText ELSE Undef)
     /\ WellFormedTokens(Frame.hypTokens, TranscriptArg)


\* C23: whenever there is a reference, the filtered reference sequence handed
\* to wordErrorRate is non-empty, so its branch for an empty reference and a
\* non-empty hypothesis is not taken
C23_FilterKeepsReference ==
  (Returned /\ Frame.hasTarget) =>
     /\ Frame.refFiltered # << >>
     /\ ~(Len(Frame.refFiltered) = 0 /\ Len(Frame.hypFiltered) > 0)


\* a message that ends a segment
Terminal(m) == m.type \in {"final", "error"}

\* the positions in the sent messages of the terminal messages of stop s
Answers(s) == {p \in 1..Len(wire.sent) : Terminal(wire.sent[p]) /\ wire.sent[p].stop = s}

\* C24: each "stop" is answered by exactly one terminal message, and after
\* that message no "partial" is sent for audio of the stopped segment
C24_NoPartialAfterTerminal ==
  (wire # << >>) =>
     /\ \A s \in 1..MaxStops :
           /\ Cardinality(Answers(s)) <= 1
           /\ tasks.stop[s].pc = "done" => Cardinality(Answers(s)) = 1
     /\ \A p, q \in 1..Len(wire.sent) :
           (p < q /\ Terminal(wire.sent[p]) /\ wire.sent[q].type = "partial") =>
              \A i \in 1..Len(wire.sent[q].audio) :
                 wire.sent[q].audio[i].seg # wire.sent[p].stop


\* the step in which the stop branch of some "stop" message ends
StopProcessed ==
  \E s \in 1..MaxStops : tasks.stop[s].pc # "done" /\ tasks'.stop[s].pc = "done"

\* the closure variables as they are after the connection handler has run
PostConnect ==
  /\ conn.chunks = << >> /\ conn.totalBytes = 0 /\ conn.firstChunk = 0
  /\ conn.lastPartial = "" /\ conn.timer = "running"

\* every chunk received is buffered or has been part of a recognition
NoChunkLost ==
  \A id \in 1..wire.binaries : id \in Ids(conn.chunks) \/ id \in wire.recognized

\* C25: when a "stop" has been processed the connection is back in its
\* post-connect state, with the periodic partial recognition running, and no
\* chunk received on the connection is dropped without having been part of a
\* recognition
C25_StopRestoresConnection ==
  [][(StopProcessed /\ wire'.open => PostConnect') /\ NoChunkLost']_vars


\* the sum of the lengths of the chunks of a buffer
RECURSIVE SumOfLengths(_)
SumOfLengths(buf) == IF buf = << >> THEN 0 ELSE Head(buf).len + SumOfLengths(Tail(buf))

\* a step of the binary branch
BinaryStep == wire'.binaries = wire.binaries + 1

\* the buffer after the step is the received chunk behind the newest chunks
\* of the buffer before it
OldestEvicted ==
  /\ conn'.chunks # << >>
  /\ conn'.chunks[Len(conn'.chunks)].id = wire'.binaries
  /\ \E k \in 0..Len(conn.chunks) :
        SubSeq(conn.chunks, k + 1, Len(conn.chunks))
          = SubSeq(conn'.chunks, 1, Len(conn'.chunks) - 1)

\* C26: totalBytes is always the sum of the lengths of the buffered chunks;
\* after each binary message totalBytes is at most 8 MiB or exactly one chunk
\* is buffered, and the chunks evicted are the oldest
C26_ByteCount ==
  /\ [](conn.totalBytes = SumOfLengths(conn.chunks))
  /\ [][BinaryStep =>
          /\ conn'.totalBytes <= 8 * 1024 * 1024 \/ Len(conn'.chunks) = 1
          /\ OldestEvicted]_vars

\* C26 witness: of three chunks of 3 MiB the oldest has been evicted
C26_Witness ==
  /\ wire.binaries = 3
  /\ Len(conn.chunks) = 2 /\ conn.chunks[1].id = 2 /\ conn.chunks[2].id = 3
  /\ conn.totalBytes = 6 * 1024 * 1024


\* the history a session must hold: its last 12 pushed entries, in push order
RecentPushes(sid) ==
  SubSeq(pushed[sid], Max(1, Len(pushed[sid]) - 11), Len(pushed[sid]))

\* C27: each session's history holds at most 12 entries, and they are the
\* most recently pushed entries of that session in push order; a push to one
\* session leaves every other session's history as it was
C27_HistoryWindow ==
  /\ [](\A sid \in SessionIds :
          IF sid \in DOMAIN sessions
          THEN Len(sessions[sid]) <= 12 /\ sessions[sid] = RecentPushes(sid)
          ELSE pushed[sid] = << >>)
  /\ [][\A sid \in SessionIds :
          pushed'[sid] = pushed[sid] =>
             IF sid \in DOMAIN sessions
             THEN sessions'[sid] = sessions[sid]
             ELSE sid \notin DOMAIN sessions']_vars

\* C27 witness: the thirteenth push to a session has dropped its first entry
C27_Witness ==
  /\ pushed # << >>
  /\ Len(pushed["s1"]) = 13 /\ Len(sessions["s1"]) = 12
  /\ pushed["s1"][1].role = "user" /\ sessions["s1"][1].role = "assistant"


\* the step is a tick of the heartbeat
TickStep == heartbeat'.ticks = heartbeat.ticks + 1

\* the step terminates client c
Terminated(c) == clients[c].state = "open" /\ clients'[c].state = "terminated"

\* C28: at a tick a client that has sent no pong since the ping of the
\* previous tick is terminated; a client is terminated only at a tick at
\* which it owes a pong, so one that answers every ping is never terminated;
\* and never at the first tick after it connected
C28_Heartbeat ==
  [][\A c \in Clients :
       /\ (TickStep /\ IsClient(clients, c) /\ heartbeat.owes[c]) => Terminated(c)
       /\ Terminated(c) => (TickStep /\ heartbeat.owes[c] /\ heartbeat.seen[c] >= 1)]_vars

\* C28 witness: one client has been terminated while the other, which has
\* answered its pings, is open after two ticks and owes nothing
C28_Witness ==
  /\ clients # << >>
  /\ clients["a"].state = "terminated"
  /\ clients["b"].state = "open" /\ heartbeat.seen["b"] >= 2 /\ ~heartbeat.owes["b"]

\* the request has been handed to the handler
Posted == post # << >>

\* the handler has returned and its finally block has run
HandlerReturned == post.pc = "done"

StatusSent == post.responses[1]

\* the audio is missing or empty: no upload, an upload of no bytes, or a
\* transcoded file of no bytes
AudioMissingOrEmpty == post.file \in {"missing", "empty"} \/ post.wavEmpty

\* transcoding (with the writing of its input and the reading of its output)
\* or transcription has thrown
MandatoryFailed == post.failure \in {"writeFile", "toLinear16", "readFile", "stt"}

\* the v1 recognizer is called only after v2 threw and with USE_V1_FALLBACK = "1"
V1OnlyAsFallback == post.v1Tried => post.v2Failed /\ post.useV1Fallback

\* no file the request wrote is left once the handler has returned
NoTempFileLeft == HandlerReturned => disk \cap post.created = {}

\* what a request that has run to its end got
AnsweredOnReturn ==
  /\ Len(post.responses) <= 1
  /\ HandlerReturned => Len(post.responses) = 1
  /\ Len(post.responses) = 1 =>
       /\ StatusSent = 400 <=> AudioMissingOrEmpty
       /\ StatusSent = 500 <=> MandatoryFailed
       /\ StatusSent \in {200, 400, 500}
       /\ post.failure # "none" => MandatoryFailed
  /\ V1OnlyAsFallback
  /\ NoTempFileLeft

\* an optional step that has run into the time limit is no longer waited
\* for, and the request it belongs to ends with ok:true
TimeoutsAnswered ==
  /\ post.pc \notin post.timedOut
  /\ HandlerReturned /\ post.timedOut # {} => post.responses = <<200>>

====
